---- MODULE Spec2Model ----
(***************************************************************************)
(* Model of the three generic frameworks of fs-template:                   *)
(*   - Saga                (saga orchestrator with compensating rollback)  *)
(*   - createSqsAdapter    (queue batch adapter)                           *)
(*   - createLambdaAdapter (HTTP request adapter) with handleError         *)
(* Every external call (a step's execute/compensate, the use case, the     *)
(* SQS delete, getUserInfo) is an await point: the call and its settlement *)
(* are separate actions, the outcome is chosen when it settles.            *)
(***************************************************************************)
EXTENDS Integers, Sequences, FiniteSets, TLC

(***************************************************************************)
(* Bounds                                                                  *)
(***************************************************************************)
MaxSteps == 3
MaxRuns == 2
MaxRecords == 3
MaxRetries == 3
MaxRequests == 2
MaxInvocations == 2

\* const defaultOptions: SqsAdapterOptions
defaultOptions == [processInParallel |-> TRUE, continueOnError |-> TRUE]

\* const defaultOptions: LambdaAdapterOptions
lambdaDefaultOptions == [requireAuth |-> "true", requireBody |-> "true", requiredFields |-> {}]

Errors == {"E1", "E2"}
NoError == [src |-> "none"]
NoOutcome == [kind |-> "none"]

VARIABLES
  \* ---- Saga (one instance) ----
  steps,            \* this.steps: the step added at position p is named p-1
  results,          \* this.results
  completedSteps,   \* this.completedSteps
  sagaPc,           \* "idle" | "executing" | "compensating" | "resolved" | "rejected"
  execI,            \* loop variable i of execute()
  compI,            \* loop variable i of compensate()
  sagaError,        \* the error bound by catch (error) in execute()
  sagaOutcome,      \* settlement of the promise returned by execute()
  sagaRun,          \* number of execute() calls made on the instance
  execLog,          \* steps whose execute was called during the current execute()
  compLog,          \* steps whose compensate was called during the current execute()
  compErrs,         \* steps whose compensate rejected during the current execute()
  \* ---- createSqsAdapter handler (one invocation) ----
  records,          \* event.Records
  sqsOptions,       \* mergedOptions
  sqsPc,            \* "idle" | "start" | "running" | "done"
  seqIdx,           \* position of the for..of loop over event.Records
  seqResults,       \* const results = [] of the sequential branch
  recPc,            \* per record: where processRecord stands
  recFail,          \* per record: the stage whose error reached the catch
  ucCalls,          \* per record: number of useCase invocations
  ucOk,             \* per record: the useCase promise resolved
  delCalls,         \* per record: number of DeleteMessageCommand sent
  deleted,          \* per record: number of deletes SQS carried out
  lateUc,           \* per record: useCase invoked after an earlier record failed
  lateDel,          \* per record: delete sent after an earlier record failed
  firstRejected,    \* the record whose rejection settled Promise.all (0: none)
  sqsResponse,      \* value the handler's promise resolved with
  \* ---- createLambdaAdapter handler (one invocation) ----
  lamOptions,       \* options: requireAuth, requireBody, requiredFields
  lamEnv,           \* behaviour of the injected eventParser, schema, responseFormatter
  event,            \* the APIGatewayProxyEventV2: credential and body
  lamPc,            \* "idle" | "start" | "auth" | "usecase" | "done"
  validUser,        \* let validUser: ValidUser = { userId: '' }
  lamLog,           \* the pipeline steps performed so far, in order
  lamResponse,      \* value the handler's promise resolved with
  \* ---- withRetry wrapper (one call) ----
  retries,          \* config.retries
  fnScript,         \* what the k-th invocation of fn does: "ok" or the class it throws
  attempt,          \* loop variable attempt
  retryPc,          \* "idle" | "start" | "calling" | "sleeping" | "resolved" | "rejected"
  fnCalls,          \* number of invocations of fn
  sleeps,           \* number of setTimeout delays awaited
  onRetryCalls,     \* number of invocations of config.onRetry
  retryOutcome,     \* settlement of the promise returned by the wrapper
  \* ---- handleError (one call) ----
  thrown,           \* the error handed to handleError
  classified,       \* the response handleError returned
  \* ---- requestResearchAdapter (one invocation; uses the handler variables) ----
  researchInput,    \* the input executeResearchUsecase was invoked with
  researchCalls,    \* number of invocations of executeResearchUsecase
  researchPc,       \* "idle" | "decrement" | "save" | "returned" | "failed"
  creditsUsed,      \* decrements applied to the key's remaining credits
  researchTable,    \* items of the Research table
  backgroundRuns,   \* number of runResearchUsecase calls started
  bgRuns,           \* the runResearchUsecase calls started, in order: [input, idOmitted, pc],
                    \* pc "running" | "saving" | "completed" | "run_failed" | "save_failed"
  requestNo,        \* requests the process handled before the current one
  getResponse,      \* one invocation of getResearchByIdAdapter: [principal, researchId, item, response]
  \* ---- registerUserUseCase (invocations of one process) ----
  newUserData,      \* userRegistrationSagaBuilder.newUserData (its userId)
  generatedKeyId,   \* userRegistrationSagaBuilder.generatedKeyId
  regPc,            \* per invocation: "idle" | "execute" | "compensate" | "resolved" | "rejected"
  regStep,          \* per invocation: the step whose execute or compensate is awaited
  regCompleted,     \* per invocation: completedSteps of its saga
  regCall,          \* per invocation: the userAdapter call in flight: [called, userId, keyId]
  regCompErrs,      \* per invocation: steps whose compensate rejected
  regLog,           \* the arguments of the userAdapter calls made: [inv, userId, keyId]
  Users,            \* the Users table: items [userId, keyId, apiKey]
  unkeyKeys,        \* keys held by the key service: [keyId, userId]
  publicMetadata    \* identity claims per userId

sagaVars == <<steps, results, completedSteps, sagaPc, execI, compI, sagaError,
              sagaOutcome, sagaRun, execLog, compLog, compErrs>>

sqsVars == <<records, sqsOptions, sqsPc, seqIdx, seqResults, recPc, recFail, ucCalls,
             ucOk, delCalls, deleted, lateUc, lateDel, firstRejected, sqsResponse>>

lamVars == <<lamOptions, lamEnv, event, lamPc, validUser, lamLog, lamResponse>>

retryVars == <<retries, fnScript, attempt, retryPc, fnCalls, sleeps, onRetryCalls,
               retryOutcome>>

classifyVars == <<thrown, classified>>

researchProcVars == <<bgRuns, requestNo, getResponse>>

researchVars == <<researchInput, researchCalls, researchPc, creditsUsed, researchTable,
                  backgroundRuns, researchProcVars>>

regVars == <<newUserData, generatedKeyId, regPc, regStep, regCompleted, regCall,
             regCompErrs, regLog, Users, unkeyKeys, publicMetadata>>

vars == <<sagaVars, sqsVars, lamVars, retryVars, classifyVars, researchVars, regVars>>

\* what the actions of one component leave alone
notSagaVars == <<sqsVars, lamVars, retryVars, classifyVars, researchVars, regVars>>

notSqsVars == <<sagaVars, lamVars, retryVars, classifyVars, researchVars, regVars>>

notLamVars == <<sagaVars, sqsVars, retryVars, classifyVars, researchVars, regVars>>

notRetryVars == <<sagaVars, sqsVars, lamVars, classifyVars, researchVars, regVars>>

notClassifyVars == <<sagaVars, sqsVars, lamVars, retryVars, researchVars, regVars>>

notResearchVars == <<sagaVars, sqsVars, retryVars, classifyVars, regVars>>

notRegVars == <<sagaVars, sqsVars, lamVars, retryVars, classifyVars, researchVars>>

\* The components do not share state: a specification of one component leaves
\* the others as constructed.
SqsIdle ==
  /\ records = <<>>
  /\ sqsOptions = defaultOptions
  /\ sqsPc = "idle"
  /\ seqIdx = 0
  /\ seqResults = <<>>
  /\ recPc = <<>>
  /\ recFail = <<>>
  /\ ucCalls = <<>>
  /\ ucOk = <<>>
  /\ delCalls = <<>>
  /\ deleted = <<>>
  /\ lateUc = <<>>
  /\ lateDel = <<>>
  /\ firstRejected = 0
  /\ sqsResponse = NoOutcome

LambdaIdle ==
  /\ lamOptions = lambdaDefaultOptions
  /\ lamEnv = [parserThrows |-> FALSE, schemaOk |-> TRUE, formatterThrows |-> FALSE]
  /\ event = [auth |-> "none", body |-> [kind |-> "absent"]]
  /\ lamPc = "idle"
  /\ validUser = [userId |-> ""]
  /\ lamLog = <<>>
  /\ lamResponse = NoOutcome

RetryIdle ==
  /\ retries = 0
  /\ fnScript = <<>>
  /\ attempt = 0
  /\ retryPc = "idle"
  /\ fnCalls = 0
  /\ sleeps = 0
  /\ onRetryCalls = 0
  /\ retryOutcome = NoOutcome

ClassifyIdle == thrown = NoError /\ classified = NoOutcome

ResearchIdle ==
  /\ researchInput = NoOutcome
  /\ researchCalls = 0
  /\ researchPc = "idle"
  /\ creditsUsed = 0
  /\ researchTable = {}
  /\ backgroundRuns = 0
  /\ bgRuns = <<>>
  /\ requestNo = 0
  /\ getResponse = NoOutcome

\* no key id: the value of a field never assigned
NoKey == 0

\* no user data: builder.newUserData before forUser
NoUser == 0

\* the invocations of registerUserUseCase; invocation i registers the user with userId i
Invocations == 1..MaxInvocations

NoCall == [called |-> FALSE, userId |-> NoUser, keyId |-> NoKey]

NoClaims == [updated |-> FALSE, keyId |-> NoKey, hasApiKey |-> FALSE]

RegIdle ==
  /\ newUserData = NoUser
  /\ generatedKeyId = NoKey
  /\ regPc = [i \in Invocations |-> "idle"]
  /\ regStep = [i \in Invocations |-> 0]
  /\ regCompleted = [i \in Invocations |-> 0]
  /\ regCall = [i \in Invocations |-> NoCall]
  /\ regCompErrs = [i \in Invocations |-> {}]
  /\ regLog = {}
  /\ Users = {}
  /\ unkeyKeys = {}
  /\ publicMetadata = [u \in Invocations |-> NoClaims]

(***************************************************************************)
(* Saga                                                                    *)
(***************************************************************************)
SagaRunning == sagaPc \in {"executing", "compensating"}

\* new Saga(): the field initialisers
SagaNew ==
  /\ steps = <<>>
  /\ results = <<>>
  /\ completedSteps = 0
  /\ sagaPc = "idle"
  /\ execI = 0
  /\ compI = 0
  /\ sagaError = NoError
  /\ sagaOutcome = NoOutcome
  /\ sagaRun = 0
  /\ execLog = <<>>
  /\ compLog = <<>>
  /\ compErrs = {}

SagaInit == SagaNew /\ SqsIdle /\ LambdaIdle /\ RetryIdle /\ ClassifyIdle /\ ResearchIdle /\ RegIdle

\* addStep(step): this.steps.push(step)
addStep ==
  /\ ~SagaRunning
  /\ Len(steps) < MaxSteps
  /\ steps' = Append(steps, Len(steps))
  /\ UNCHANGED <<results, completedSteps, sagaPc, execI, compI, sagaError,
                 sagaOutcome, sagaRun, execLog, compLog, compErrs>>
  /\ UNCHANGED notSagaVars

PushResultReversed(rs, r) == <<r>> \o rs

\* this.results.push(result)
PushResult(rs, r) == Append(rs, r)

FirstCompensatedOffByOne(completed) == completed

\* compensate(): let i = this.completedSteps - 1
FirstCompensated(completed) == completed - 1

executeWithoutAwait ==
  /\ ~SagaRunning
  /\ sagaRun < MaxRuns
  /\ sagaRun' = sagaRun + 1
  /\ sagaError' = NoError
  /\ compLog' = <<>>
  /\ compErrs' = {}
  /\ execI' = 0
  /\ IF 0 < Len(steps)
       THEN /\ sagaPc' = "executing"
            /\ execLog' = [p \in 1..Len(steps) |-> p - 1]
            /\ sagaOutcome' = NoOutcome
       ELSE /\ sagaPc' = "resolved"
            /\ execLog' = <<>>
            /\ sagaOutcome' = [kind |-> "resolved", value |-> results]
  /\ UNCHANGED <<steps, results, completedSteps, compI>>
  /\ UNCHANGED notSagaVars

\* execute() is called: the for loop starts at i = 0 and either calls
\* steps[0].execute() or, with no steps, returns this.results.
execute ==
  /\ ~SagaRunning
  /\ sagaRun < MaxRuns
  /\ sagaRun' = sagaRun + 1
  /\ sagaError' = NoError
  /\ compLog' = <<>>
  /\ compErrs' = {}
  /\ execI' = 0
  /\ IF 0 < Len(steps)
       THEN /\ sagaPc' = "executing"
            /\ execLog' = <<0>>
            /\ sagaOutcome' = NoOutcome
       ELSE /\ sagaPc' = "resolved"
            /\ execLog' = <<>>
            /\ sagaOutcome' = [kind |-> "resolved", value |-> results]
  /\ UNCHANGED <<steps, results, completedSteps, compI>>
  /\ UNCHANGED notSagaVars

\* await this.steps[i].execute() resolves: push, count, i++, next iteration
stepResolves ==
  /\ sagaPc = "executing"
  /\ results' = PushResult(results, steps[execI + 1])
  /\ completedSteps' = completedSteps + 1
  /\ execI' = execI + 1
  /\ IF execI + 1 < Len(steps)
       THEN /\ sagaPc' = "executing"
            /\ execLog' = Append(execLog, execI + 1)
            /\ sagaOutcome' = NoOutcome
       ELSE /\ sagaPc' = "resolved"
            /\ execLog' = execLog
            /\ sagaOutcome' = [kind |-> "resolved", value |-> results']
  /\ UNCHANGED <<steps, compI, sagaError, sagaRun, compLog, compErrs>>
  /\ UNCHANGED notSagaVars

\* await this.steps[i].execute() rejects: catch (error), await this.compensate()
stepRejects ==
  /\ sagaPc = "executing"
  /\ \E e \in Errors :
       sagaError' = [src |-> "execute", step |-> execI, id |-> e]
  /\ compI' = FirstCompensated(completedSteps)
  /\ IF compI' >= 0
       THEN /\ sagaPc' = "compensating"
            /\ compLog' = <<compI'>>
            /\ sagaOutcome' = NoOutcome
       ELSE /\ sagaPc' = "rejected"
            /\ compLog' = <<>>
            /\ sagaOutcome' = [kind |-> "rejected", error |-> sagaError']
  /\ UNCHANGED <<steps, results, completedSteps, execI, sagaRun, execLog, compErrs>>
  /\ UNCHANGED notSagaVars

\* the rest of the compensate() loop after the call for step compI settled
CompensateContinue ==
  /\ compI' = compI - 1
  /\ IF compI - 1 >= 0
       THEN /\ sagaPc' = "compensating"
            /\ compLog' = Append(compLog, compI - 1)
            /\ sagaOutcome' = NoOutcome
       ELSE /\ sagaPc' = "rejected"
            /\ compLog' = compLog
            /\ sagaOutcome' = [kind |-> "rejected", error |-> sagaError]

\* await this.steps[i].compensate() resolves
compResolves ==
  /\ sagaPc = "compensating"
  /\ CompensateContinue
  /\ UNCHANGED <<steps, results, completedSteps, execI, sagaError, sagaRun,
                 execLog, compErrs>>
  /\ UNCHANGED notSagaVars

compRejectsPropagates ==
  /\ sagaPc = "compensating"
  /\ \E e \in Errors :
       /\ sagaPc' = "rejected"
       /\ sagaOutcome' = [kind |-> "rejected",
                          error |-> [src |-> "compensate", step |-> compI, id |-> e]]
  /\ compErrs' = compErrs \cup {compI}
  /\ UNCHANGED <<steps, results, completedSteps, execI, compI, sagaError, sagaRun,
                 execLog, compLog>>
  /\ UNCHANGED notSagaVars

\* await this.steps[i].compensate() rejects: catch (compensationError), log, go on
compRejects ==
  /\ sagaPc = "compensating"
  /\ compErrs' = compErrs \cup {compI}
  /\ CompensateContinue
  /\ UNCHANGED <<steps, results, completedSteps, execI, sagaError, sagaRun, execLog>>
  /\ UNCHANGED notSagaVars

SagaNext ==
  \/ addStep
  \/ execute
  \/ stepResolves
  \/ stepRejects
  \/ compResolves
  \/ compRejects

SagaSpec == SagaInit /\ [][SagaNext]_vars

(***************************************************************************)
(* Saga properties.  The step that failed in the current execute() is      *)
(* sagaError.step; C1 and C2 speak of the first execute() of an instance   *)
(* (sagaRun = 1), the only one the orchestrator's state machine has.       *)
(***************************************************************************)
StepFailed == sagaError # NoError

Descending(from, n) == [p \in 1..n |-> from - p]

Ascending(n) == [p \in 1..n |-> p - 1]

\* C1: when execute of step k rejects, compensate is invoked for exactly the
\* steps k-1, k-2, ..., 0 in that order, each once, never for k or a later
\* step, and no step after k has its execute started.
C1_CompensateBelowFailure ==
  (sagaRun = 1 /\ StepFailed) =>
    /\ Len(compLog) <= sagaError.step
    /\ compLog = Descending(sagaError.step, Len(compLog))
    /\ execLog = Ascending(sagaError.step + 1)
    /\ (sagaPc = "rejected" => Len(compLog) = sagaError.step)

C1_Witness ==
  /\ sagaRun = 1
  /\ sagaPc = "rejected"
  /\ sagaError.src = "execute"
  /\ sagaError.step = 2
  /\ compLog = <<1, 0>>

\* C2: when every step resolves, no compensate is ever invoked and execute
\* resolves with one result per step, in declaration order.
C2_NoCompensateOnSuccess ==
  /\ [](~StepFailed => compLog = <<>>)
  /\ [][(sagaRun' = 1 /\ sagaPc # "resolved" /\ sagaPc' = "resolved") =>
          /\ ~StepFailed'
          /\ compLog' = <<>>
          /\ sagaOutcome' = [kind |-> "resolved", value |-> steps']
          /\ Len(sagaOutcome'.value) = Len(steps')]_vars

C2_Witness ==
  /\ sagaRun = 1
  /\ sagaPc = "resolved"
  /\ Len(steps) = 3
  /\ sagaOutcome.value = <<0, 1, 2>>

\* C3: a rejecting compensate of step j does not stop the rollback: every
\* step below j that had completed still has its compensate invoked.
C3_RollbackContinues ==
  /\ (sagaPc = "compensating" =>
        \A j \in compErrs : \A m \in compI..(j - 1) : \E p \in 1..Len(compLog) : compLog[p] = m)
  /\ (sagaPc = "rejected" =>
        \A j \in compErrs : \A m \in 0..(j - 1) : \E p \in 1..Len(compLog) : compLog[p] = m)

C3_Witness ==
  /\ sagaPc = "rejected"
  /\ 1 \in compErrs
  /\ \E p \in 1..Len(compLog) : compLog[p] = 0

\* C4: when a step's execute rejects with E, execute rejects with exactly E
\* once the rollback loop has run to its end, whatever the compensations
\* did; it never resolves and E is never replaced by a compensation error.
C4_OriginalErrorRethrown ==
  StepFailed =>
    /\ sagaPc \in {"compensating", "rejected"}
    /\ sagaOutcome.kind # "resolved"
    /\ (sagaPc = "compensating" => sagaOutcome = NoOutcome)
    /\ (sagaPc = "rejected" =>
          /\ sagaOutcome = [kind |-> "rejected", error |-> sagaError]
          /\ sagaError.src = "execute"
          /\ Len(compLog) = completedSteps)

C4_Witness ==
  /\ sagaPc = "rejected"
  /\ compErrs # {}
  /\ Cardinality(compErrs) < Len(compLog)
  /\ sagaOutcome.kind = "rejected"
  /\ sagaOutcome.error = [src |-> "execute", step |-> 2, id |-> "E2"]

(***************************************************************************)
(* handleError (custom-error): classification of a thrown value            *)
(***************************************************************************)
BAD_REQUEST == 400
UNAUTHORIZED == 401
INTERNAL_SERVER_ERROR == 500

\* messages of the SyntaxError thrown by JSON.parse; all of them contain "JSON"
JsonParseMessages == {"Unexpected token in JSON at position 0"}

MessageIncludesJSON(m) == m \in JsonParseMessages

MkError(c, m) == [class |-> c, message |-> m]

\* createError(statusCode, message): new AppError(statusCode, message)
createError(code, m) == [class |-> "AppError", statusCode |-> code, message |-> m]

\* createHttpResponse(statusCode, {body: {message}}): the body is the JSON
\* text of {message}, kept here as its message
createHttpResponse(code, m) ==
  [kind |-> "response",
   statusCode |-> code,
   headers |-> [ContentType |-> "application/json"],
   message |-> m,
   isBase64Encoded |-> FALSE]

handleError(error) ==
  IF error.class = "AppError"
    THEN createHttpResponse(BAD_REQUEST, "AppError")
  ELSE IF error.class = "ZodError"
    THEN createHttpResponse(BAD_REQUEST, "Zod validation error")
  ELSE IF error.class = "SyntaxError" /\ MessageIncludesJSON(error.message)
    THEN createHttpResponse(BAD_REQUEST, "Invalid JSON in request body")
  ELSE createHttpResponse(INTERNAL_SERVER_ERROR, "Internal Server Error")

NOT_FOUND == 404

\* errors handed to handleError: AppError objects made by createError and
\* errors of the built-in classes and of ZodError
ErrorMessages ==
  JsonParseMessages \cup
  {"Unauthorized", "Research not found", "Missing request body", "Missing user id",
   "Invalid regular expression", "invalid input", "use case failed"}

ThrownErrors ==
  { createError(c, m) : c \in {BAD_REQUEST, UNAUTHORIZED, NOT_FOUND}, m \in ErrorMessages }
  \cup { MkError(c, m) : c \in {"ZodError", "SyntaxError", "Error", "TypeError"},
                         m \in ErrorMessages }

\* a call of handleError with some error
ClassifyCalled == thrown \in ThrownErrors /\ classified = NoOutcome

ClassifyInit == ClassifyCalled /\ SagaNew /\ SqsIdle /\ LambdaIdle /\ RetryIdle /\ ResearchIdle /\ RegIdle

Classify ==
  /\ classified = NoOutcome
  /\ classified' = handleError(thrown)
  /\ UNCHANGED thrown
  /\ UNCHANGED notClassifyVars

ClassifyNext == Classify

ClassifySpec == ClassifyInit /\ [][ClassifyNext]_vars

(***************************************************************************)
(* createSqsAdapter                                                        *)
(* A record is [body, valid, arn]:                                         *)
(*   body  - shape of record.body: "invalid_json", "sns" (has a Message    *)
(*           that is JSON), "sns_bad" (Message is not JSON), "direct"      *)
(*   valid - whether the extracted payload satisfies the schema            *)
(*   arn   - record.eventSourceARN: "ok", "missing" or "malformed"         *)
(***************************************************************************)
RecordKinds ==
  { [body |-> "invalid_json", valid |-> FALSE, arn |-> "ok"],
    [body |-> "sns_bad",      valid |-> FALSE, arn |-> "ok"],
    [body |-> "direct",       valid |-> FALSE, arn |-> "ok"],
    [body |-> "sns",          valid |-> TRUE,  arn |-> "ok"],
    [body |-> "direct",       valid |-> TRUE,  arn |-> "ok"],
    [body |-> "direct",       valid |-> TRUE,  arn |-> "missing"],
    [body |-> "direct",       valid |-> TRUE,  arn |-> "malformed"] }

Batches == UNION { [1..n -> RecordKinds] : n \in 0..MaxRecords }

RecIds == 1..Len(records)

\* an invocation of the handler with some batch under some options
SqsInvoked ==
  /\ records \in Batches
  /\ sqsOptions \in [processInParallel : BOOLEAN, continueOnError : BOOLEAN]
  /\ sqsPc = "start"
  /\ seqIdx = 0
  /\ seqResults = <<>>
  /\ recPc = [r \in RecIds |-> "pending"]
  /\ recFail = [r \in RecIds |-> "none"]
  /\ ucCalls = [r \in RecIds |-> 0]
  /\ ucOk = [r \in RecIds |-> FALSE]
  /\ delCalls = [r \in RecIds |-> 0]
  /\ deleted = [r \in RecIds |-> 0]
  /\ lateUc = [r \in RecIds |-> FALSE]
  /\ lateDel = [r \in RecIds |-> FALSE]
  /\ firstRejected = 0
  /\ sqsResponse = NoOutcome

\* defaultMessageExtractor(record): JSON.parse(record.body), then the SNS
\* branch or parsedBody.payload
defaultMessageExtractor(rec) ==
  IF rec.body = "invalid_json"
    THEN [threw |-> TRUE,
          error |-> MkError("SyntaxError", "Unexpected token in JSON at position 0")]
  ELSE IF rec.body = "sns_bad"
    THEN [threw |-> TRUE, error |-> MkError("Error", "Invalid SNS message format")]
  ELSE [threw |-> FALSE, valid |-> rec.valid]

SyncStageNoValidation(rec) ==
  LET raw == defaultMessageExtractor(rec) IN
    IF raw.threw THEN [stage |-> "extract", error |-> raw.error]
    ELSE [stage |-> "usecase"]

\* processRecord up to its first await: messageExtractor(record),
\* schema.parse(rawMessage), useCase(validatedInput)
SyncStage(rec) ==
  LET raw == defaultMessageExtractor(rec) IN
    IF raw.threw THEN [stage |-> "extract", error |-> raw.error]
    ELSE IF ~raw.valid THEN [stage |-> "validate", error |-> MkError("ZodError", "invalid input")]
    ELSE [stage |-> "usecase"]

\* the error that reached catch (recordError) of record r
ErrorOf(r) ==
  IF recFail[r] \in {"extract", "validate"} THEN SyncStage(records[r]).error
  ELSE IF recFail[r] = "usecase" THEN MkError("Error", "use case failed")
  ELSE IF recFail[r] = "arn" /\ records[r].arn = "missing"
    THEN MkError("Error", "Missing eventSourceARN in SQS record")
  ELSE IF recFail[r] = "arn" THEN MkError("Error", "Invalid ARN format")
  ELSE MkError("Error", "delete failed")

OnRecordErrorAlwaysThrows(continueOnError) == "thrown"

\* catch (recordError): return { error } or rethrow
OnRecordError(continueOnError) == IF continueOnError THEN "errored" ELSE "thrown"

Terminal == {"returned", "errored", "thrown"}

EntryAlwaysResult(r) == [result |-> r]

\* the value processRecord resolved with for record r
Entry(r) ==
  IF recPc[r] = "returned" THEN [result |-> r] ELSE [error |-> ErrorOf(r).message]

MissingRecordsNever(recs) == FALSE

\* !event.Records || event.Records.length === 0 (an event without Records is
\* the empty batch here: the code treats the two alike)
MissingRecords(recs) == Len(recs) = 0

\* the handler is invoked; with no records it fails at once; in parallel mode
\* event.Records.map(processRecord) runs every record up to its first await
SqsStart ==
  /\ sqsPc = "start"
  /\ IF MissingRecords(records)
       THEN /\ sqsPc' = "done"
            /\ sqsResponse' = handleError(MkError("Error", "Missing SQS Records"))
            /\ UNCHANGED <<seqIdx, recPc, recFail, ucCalls, lateUc, firstRejected>>
     ELSE IF sqsOptions.processInParallel
       THEN /\ sqsPc' = "running"
            /\ recPc' = [r \in RecIds |->
                 IF SyncStage(records[r]).stage = "usecase" THEN "usecase"
                 ELSE OnRecordError(sqsOptions.continueOnError)]
            /\ recFail' = [r \in RecIds |->
                 IF SyncStage(records[r]).stage = "usecase" THEN "none"
                 ELSE SyncStage(records[r]).stage]
            /\ ucCalls' = [r \in RecIds |->
                 IF SyncStage(records[r]).stage = "usecase" THEN 1 ELSE 0]
            /\ lateUc' = [r \in RecIds |->
                 /\ SyncStage(records[r]).stage = "usecase"
                 /\ \E q \in 1..(r - 1) : SyncStage(records[q]).stage # "usecase"]
            /\ firstRejected' =
                 IF \E r \in RecIds : recPc'[r] = "thrown"
                   THEN CHOOSE r \in RecIds :
                          /\ recPc'[r] = "thrown"
                          /\ \A q \in 1..(r - 1) : recPc'[q] # "thrown"
                   ELSE 0
            /\ UNCHANGED <<seqIdx, sqsResponse>>
       ELSE /\ sqsPc' = "running"
            /\ seqIdx' = 1
            /\ UNCHANGED <<recPc, recFail, ucCalls, lateUc, firstRejected, sqsResponse>>
  /\ UNCHANGED <<records, sqsOptions, seqResults, ucOk, delCalls, deleted, lateDel>>
  /\ UNCHANGED notSqsVars

\* the error of record r reaches the catch block of processRecord
RecordFails(r, stage) ==
  /\ recFail' = [recFail EXCEPT ![r] = stage]
  /\ recPc' = [recPc EXCEPT ![r] = OnRecordError(sqsOptions.continueOnError)]
  /\ firstRejected' =
       IF recPc'[r] = "thrown" /\ firstRejected = 0 THEN r ELSE firstRejected

EarlierFailed(r) == \E q \in 1..(r - 1) : recFail[q] # "none"

\* sequential mode: processRecord(record) of the loop runs up to its first await
SeqProcess ==
  /\ sqsPc = "running"
  /\ ~sqsOptions.processInParallel
  /\ recPc[seqIdx] = "pending"
  /\ IF SyncStage(records[seqIdx]).stage = "usecase"
       THEN /\ recPc' = [recPc EXCEPT ![seqIdx] = "usecase"]
            /\ ucCalls' = [ucCalls EXCEPT ![seqIdx] = @ + 1]
            /\ lateUc' = [lateUc EXCEPT ![seqIdx] = EarlierFailed(seqIdx)]
            /\ UNCHANGED <<recFail, firstRejected>>
       ELSE /\ RecordFails(seqIdx, SyncStage(records[seqIdx]).stage)
            /\ UNCHANGED <<ucCalls, lateUc>>
  /\ UNCHANGED <<records, sqsOptions, sqsPc, seqIdx, seqResults, ucOk, delCalls,
                 deleted, lateDel, sqsResponse>>
  /\ UNCHANGED notSqsVars

SeqSettleWithoutAwait ==
  /\ sqsPc = "running"
  /\ ~sqsOptions.processInParallel
  /\ recPc[seqIdx] # "pending"
  /\ IF recPc[seqIdx] = "thrown"
       THEN /\ sqsPc' = "done"
            /\ sqsResponse' = handleError(ErrorOf(seqIdx))
            /\ UNCHANGED <<seqIdx, seqResults>>
       ELSE /\ seqResults' = Append(seqResults, Entry(seqIdx))
            /\ IF seqIdx = Len(records)
                 THEN /\ sqsPc' = "done"
                      /\ sqsResponse' = [kind |-> "results", entries |-> seqResults']
                      /\ seqIdx' = seqIdx
                 ELSE /\ seqIdx' = seqIdx + 1
                      /\ UNCHANGED <<sqsPc, sqsResponse>>
  /\ UNCHANGED <<records, sqsOptions, recPc, recFail, ucCalls, ucOk, delCalls, deleted,
                 lateUc, lateDel, firstRejected>>
  /\ UNCHANGED notSqsVars

\* sequential mode: await processRecord(record) settles; push and go on, return
\* the results after the last record, or leave through the outer catch
SeqSettle ==
  /\ sqsPc = "running"
  /\ ~sqsOptions.processInParallel
  /\ recPc[seqIdx] \in Terminal
  /\ IF recPc[seqIdx] = "thrown"
       THEN /\ sqsPc' = "done"
            /\ sqsResponse' = handleError(ErrorOf(seqIdx))
            /\ UNCHANGED <<seqIdx, seqResults>>
       ELSE /\ seqResults' = Append(seqResults, Entry(seqIdx))
            /\ IF seqIdx = Len(records)
                 THEN /\ sqsPc' = "done"
                      /\ sqsResponse' = [kind |-> "results", entries |-> seqResults']
                      /\ seqIdx' = seqIdx
                 ELSE /\ seqIdx' = seqIdx + 1
                      /\ UNCHANGED <<sqsPc, sqsResponse>>
  /\ UNCHANGED <<records, sqsOptions, recPc, recFail, ucCalls, ucOk, delCalls, deleted,
                 lateUc, lateDel, firstRejected>>
  /\ UNCHANGED notSqsVars

ParSettleRethrows ==
  /\ sqsPc = "running"
  /\ sqsOptions.processInParallel
  /\ IF firstRejected # 0
       THEN sqsResponse' = [kind |-> "rejected", error |-> ErrorOf(firstRejected)]
       ELSE /\ \A r \in RecIds : recPc[r] \in Terminal
            /\ sqsResponse' = [kind |-> "results", entries |-> [r \in RecIds |-> Entry(r)]]
  /\ sqsPc' = "done"
  /\ UNCHANGED <<records, sqsOptions, seqIdx, seqResults, recPc, recFail, ucCalls, ucOk,
                 delCalls, deleted, lateUc, lateDel, firstRejected>>
  /\ UNCHANGED notSqsVars

\* parallel mode: await Promise.all(...) settles: it rejects with the first
\* rejection, or resolves once every processRecord has resolved.  A rejection
\* cancels nothing: the processRecord calls still in flight keep running
\* after the handler has returned.
ParSettle ==
  /\ sqsPc = "running"
  /\ sqsOptions.processInParallel
  /\ IF firstRejected # 0
       THEN sqsResponse' = handleError(ErrorOf(firstRejected))
       ELSE /\ \A r \in RecIds : recPc[r] \in Terminal
            /\ sqsResponse' = [kind |-> "results", entries |-> [r \in RecIds |-> Entry(r)]]
  /\ sqsPc' = "done"
  /\ UNCHANGED <<records, sqsOptions, seqIdx, seqResults, recPc, recFail, ucCalls, ucOk,
                 delCalls, deleted, lateUc, lateDel, firstRejected>>
  /\ UNCHANGED notSqsVars

\* await useCase(validatedInput) resolves: check eventSourceARN, build the
\* queue URL, send the DeleteMessageCommand
UseCaseResolves(r) ==
  /\ recPc[r] = "usecase"
  /\ ucOk' = [ucOk EXCEPT ![r] = TRUE]
  /\ IF records[r].arn = "ok"
       THEN /\ recPc' = [recPc EXCEPT ![r] = "deleting"]
            /\ delCalls' = [delCalls EXCEPT ![r] = @ + 1]
            /\ lateDel' = [lateDel EXCEPT ![r] = EarlierFailed(r)]
            /\ UNCHANGED <<recFail, firstRejected>>
       ELSE /\ RecordFails(r, "arn")
            /\ UNCHANGED <<delCalls, lateDel>>
  /\ UNCHANGED <<records, sqsOptions, sqsPc, seqIdx, seqResults, ucCalls, deleted,
                 lateUc, sqsResponse>>
  /\ UNCHANGED notSqsVars

UseCaseRejectsButDeletes(r) ==
  /\ recPc[r] = "usecase"
  /\ RecordFails(r, "usecase")
  /\ deleted' = [deleted EXCEPT ![r] = @ + 1]
  /\ UNCHANGED <<records, sqsOptions, sqsPc, seqIdx, seqResults, ucCalls, ucOk, delCalls,
                 lateUc, lateDel, sqsResponse>>
  /\ UNCHANGED notSqsVars

\* await useCase(validatedInput) rejects
UseCaseRejects(r) ==
  /\ recPc[r] = "usecase"
  /\ RecordFails(r, "usecase")
  /\ UNCHANGED <<records, sqsOptions, sqsPc, seqIdx, seqResults, ucCalls, ucOk, delCalls,
                 deleted, lateUc, lateDel, sqsResponse>>
  /\ UNCHANGED notSqsVars

\* await sqsClient.send(new DeleteMessageCommand(..)) resolves: return result
DeleteResolves(r) ==
  /\ recPc[r] = "deleting"
  /\ deleted' = [deleted EXCEPT ![r] = @ + 1]
  /\ recPc' = [recPc EXCEPT ![r] = "returned"]
  /\ UNCHANGED <<records, sqsOptions, sqsPc, seqIdx, seqResults, recFail, ucCalls, ucOk,
                 delCalls, lateUc, lateDel, firstRejected, sqsResponse>>
  /\ UNCHANGED notSqsVars

\* await sqsClient.send(..) rejects: the message stays in the queue
DeleteRejects(r) ==
  /\ recPc[r] = "deleting"
  /\ RecordFails(r, "delete")
  /\ UNCHANGED <<records, sqsOptions, sqsPc, seqIdx, seqResults, ucCalls, ucOk, delCalls,
                 deleted, lateUc, lateDel, sqsResponse>>
  /\ UNCHANGED notSqsVars

SqsNext ==
  \/ SqsStart
  \/ SeqProcess
  \/ SeqSettle
  \/ ParSettle
  \/ \E r \in RecIds : UseCaseResolves(r)
  \/ \E r \in RecIds : UseCaseRejects(r)
  \/ \E r \in RecIds : DeleteResolves(r)
  \/ \E r \in RecIds : DeleteRejects(r)

SqsInit == SqsInvoked /\ SagaNew /\ LambdaIdle /\ RetryIdle /\ ClassifyIdle /\ ResearchIdle /\ RegIdle

SqsSpec == SqsInit /\ [][SqsNext]_vars

(***************************************************************************)
(* Queue adapter properties                                                *)
(***************************************************************************)
\* the record cannot pass extraction and schema validation
InputRejected(rec) == rec.body \in {"invalid_json", "sns_bad"} \/ ~rec.valid

\* C5 (as stated): when the handler has finished, a record has been deleted
\* if and only if its use case resolved successfully.
C5_DeletedIffUseCaseSucceeded ==
  sqsPc = "done" => \A r \in RecIds : (deleted[r] >= 1) <=> ucOk[r]

\* C5 (amended): a record is deleted only if its use case resolved
\* successfully; a record whose use case resolved is deleted when its
\* processing ends unless the eventSourceARN check or the delete call itself
\* failed, and then it stays in the queue.
C5_DeletedOnlyIfUseCaseSucceeded ==
  \A r \in RecIds :
    /\ (deleted[r] >= 1 => ucOk[r])
    /\ (~ucOk[r] => (deleted[r] = 0 /\ delCalls[r] = 0))
    /\ ((recPc[r] \in Terminal /\ ucOk[r]) =>
          /\ (deleted[r] = 1 <=> recFail[r] = "none")
          /\ (deleted[r] = 0 => recFail[r] \in {"arn", "delete"}))

C5_Witness ==
  /\ sqsPc = "done"
  /\ \E a, b, c \in RecIds :
       /\ ucOk[a] /\ deleted[a] = 1
       /\ ucOk[b] /\ deleted[b] = 0 /\ recPc[b] \in Terminal
       /\ recFail[c] = "usecase" /\ deleted[c] = 0

C7_FailureDoesNotBlockOthers ==
  sqsOptions.continueOnError =>
    /\ firstRejected = 0
    /\ \A r \in RecIds : recPc[r] # "thrown"
    /\ (sqsPc = "done" /\ Len(records) > 0) =>
         /\ sqsResponse.kind = "results"
         /\ Len(sqsResponse.entries) = Len(records)
         /\ \A r \in RecIds :
              /\ recPc[r] \in {"returned", "errored"}
              /\ (~InputRejected(records[r]) => ucCalls[r] = 1)
              /\ ((ucOk[r] /\ records[r].arn = "ok") => delCalls[r] = 1)
              /\ (recPc[r] = "returned" => deleted[r] = 1)

C7_Witness ==
  /\ sqsPc = "done"
  /\ sqsOptions.continueOnError
  /\ sqsOptions.processInParallel
  /\ \E a, b, c \in RecIds :
       /\ a < b /\ b < c
       /\ recPc[a] = "returned" /\ deleted[a] = 1
       /\ recFail[b] # "none"
       /\ recPc[c] = "returned" /\ deleted[c] = 1

\* C8 (as stated): with continueOnError=false, once a record has failed no
\* later record of the batch has its use case invoked or its delete sent,
\* whatever processInParallel is.
C8_FailureAbortsLaterRecords ==
  ~sqsOptions.continueOnError =>
    \A r \in RecIds : ~lateUc[r] /\ ~lateDel[r]

(***************************************************************************)
(* createLambdaAdapter                                                     *)
(* event.auth - the credential of the request: "none" (no authorization    *)
(*   header), "invalid" (the token does not verify), "no_sub" (verified,   *)
(*   no sub claim), "empty_sub" (sub is ''), "valid" (sub is "u1", no      *)
(*   metadata.keyId), "valid_key" (sub is "u1", metadata.keyId is "k1")    *)
(* event.body - [kind, fields]: kind "absent" (undefined), "empty" (''),   *)
(*   "invalid_json", "null_json" (the text null) or "object"; fields gives *)
(*   each field of an object "absent", "null", "empty" or "value"          *)
(***************************************************************************)
ACCEPTED == 202

Flags == {"true", "false", "unset"}

AuthKinds == {"none", "invalid", "no_sub", "empty_sub", "valid", "valid_key"}

Fields == {"prompt", "id"}

FieldVals == {"absent", "null", "empty", "value"}

Bodies ==
  { [kind |-> k, fields |-> [f \in Fields |-> "absent"]] :
      k \in {"absent", "empty", "invalid_json", "null_json"} }
  \cup { [kind |-> "object", fields |-> fs] : fs \in [Fields -> FieldVals] }

\* an invocation of the handler of some adapter with some event
LambdaInvoked ==
  /\ lamOptions \in [requireAuth : Flags, requireBody : Flags, requiredFields : SUBSET Fields]
  /\ lamEnv \in [parserThrows : BOOLEAN, schemaOk : BOOLEAN, formatterThrows : BOOLEAN]
  /\ event \in [auth : AuthKinds, body : Bodies]
  /\ lamPc = "start"
  /\ validUser = [userId |-> ""]
  /\ lamLog = <<>>
  /\ lamResponse = NoOutcome

\* SaaSIdentityVendingMachine.getValidUserFromAuthHeader: the user or null
getValidUserFromAuthHeader(auth) ==
  IF auth = "valid_key" THEN [found |-> TRUE, user |-> [userId |-> "u1", keyId |-> "k1"]]
  ELSE IF auth = "valid"
    THEN [found |-> TRUE, user |-> [userId |-> "u1", keyId |-> "undefined"]]
  ELSE IF auth = "empty_sub"
    THEN [found |-> TRUE, user |-> [userId |-> "", keyId |-> "undefined"]]
  ELSE [found |-> FALSE]

\* SaaSIdentityVendingMachine.getValidUser: the user, or throw new Error('Unauthorized')
getValidUser(auth) ==
  LET fromHeader == getValidUserFromAuthHeader(auth) IN
    IF fromHeader.found
      THEN [threw |-> FALSE, user |-> fromHeader.user]
      ELSE [threw |-> TRUE, error |-> MkError("Error", "Unauthorized")]

\* options.requireAuth !== false, options.requireBody !== false
NotFalse(flag) == flag # "false"

Passed(log) == [log |-> log, error |-> NoError]

Failed(log, err) == [log |-> log, error |-> err]

\* if (options.requireBody !== false) { ... }: body presence, JSON.parse and
\* the required-field loop
BodyStage ==
  IF ~NotFalse(lamOptions.requireBody) THEN Passed(<<>>)
  ELSE IF event.body.kind \in {"absent", "empty"}
    THEN Failed(<<"bodyCheck">>, createError(BAD_REQUEST, "Missing request body"))
  ELSE IF event.body.kind = "invalid_json"
    THEN Failed(<<"bodyCheck">>,
                MkError("SyntaxError", "Unexpected token in JSON at position 0"))
  ELSE IF lamOptions.requiredFields = {} THEN Passed(<<"bodyCheck">>)
  ELSE IF event.body.kind = "null_json"
    THEN Failed(<<"bodyCheck", "fieldCheck">>,
                MkError("TypeError", "Cannot read properties of null"))
  ELSE IF \E f \in lamOptions.requiredFields : event.body.fields[f] = "absent"
    THEN Failed(<<"bodyCheck", "fieldCheck">>,
                createError(BAD_REQUEST, "Missing required field"))
  ELSE Passed(<<"bodyCheck", "fieldCheck">>)

InputStageSkipsSchema ==
  IF lamEnv.parserThrows
    THEN Failed(<<"eventParser">>, MkError("Error", "event parser failed"))
  ELSE Passed(<<"eventParser", "useCase">>)

\* eventParser(event, validUser), schema.parse(input), useCase(parsedInput)
InputStage ==
  IF lamEnv.parserThrows
    THEN Failed(<<"eventParser">>, MkError("Error", "event parser failed"))
  ELSE IF ~lamEnv.schemaOk
    THEN Failed(<<"eventParser", "schema">>, MkError("ZodError", "invalid input"))
  ELSE Passed(<<"eventParser", "schema", "useCase">>)

\* the handler from the body check up to the await of the use case
Pipeline ==
  IF BodyStage.error # NoError THEN BodyStage
  ELSE [log |-> BodyStage.log \o InputStage.log, error |-> InputStage.error]

\* run the pipeline after authentication: the use case is awaited, or the
\* error is caught and classified
RunPipeline(logSoFar) ==
  /\ lamLog' = logSoFar \o Pipeline.log
  /\ IF Pipeline.error = NoError
       THEN /\ lamPc' = "usecase"
            /\ lamResponse' = NoOutcome
       ELSE /\ lamPc' = "done"
            /\ lamResponse' = handleError(Pipeline.error)

\* the handler is invoked: await getUserInfo(event), or straight on
LambdaInvoke ==
  /\ lamPc = "start"
  /\ IF NotFalse(lamOptions.requireAuth)
       THEN /\ lamPc' = "auth"
            /\ lamLog' = <<"getUserInfo">>
            /\ lamResponse' = NoOutcome
       ELSE RunPipeline(<<>>)
  /\ UNCHANGED <<lamOptions, lamEnv, event, validUser>>
  /\ UNCHANGED notLamVars

\* await getUserInfo(event) resolves: the userId check, then the pipeline
GetUserInfoResolves ==
  /\ lamPc = "auth"
  /\ ~getValidUser(event.auth).threw
  /\ validUser' = getValidUser(event.auth).user
  /\ IF validUser'.userId = ""
       THEN /\ lamPc' = "done"
            /\ lamResponse' = handleError(createError(BAD_REQUEST, "Missing user id"))
            /\ lamLog' = lamLog
       ELSE RunPipeline(lamLog)
  /\ UNCHANGED <<lamOptions, lamEnv, event>>
  /\ UNCHANGED notLamVars

\* await getUserInfo(event) rejects
GetUserInfoRejects ==
  /\ lamPc = "auth"
  /\ getValidUser(event.auth).threw
  /\ lamPc' = "done"
  /\ lamResponse' = handleError(getValidUser(event.auth).error)
  /\ UNCHANGED <<lamOptions, lamEnv, event, validUser, lamLog>>
  /\ UNCHANGED notLamVars

LambdaUseCaseResolvesFormatterOutsideTry ==
  /\ lamPc = "usecase"
  /\ lamPc' = "done"
  /\ lamLog' = Append(lamLog, "responseFormatter")
  /\ lamResponse' =
       IF lamEnv.formatterThrows
         THEN [kind |-> "rejected", error |-> MkError("Error", "formatter failed")]
         ELSE createHttpResponse(ACCEPTED, "formatted result")
  /\ UNCHANGED <<lamOptions, lamEnv, event, validUser>>
  /\ UNCHANGED notLamVars

\* await useCase(parsedInput) resolves: return responseFormatter(result)
LambdaUseCaseResolves ==
  /\ lamPc = "usecase"
  /\ lamPc' = "done"
  /\ lamLog' = Append(lamLog, "responseFormatter")
  /\ lamResponse' =
       IF lamEnv.formatterThrows
         THEN handleError(MkError("Error", "formatter failed"))
         ELSE createHttpResponse(ACCEPTED, "formatted result")
  /\ UNCHANGED <<lamOptions, lamEnv, event, validUser>>
  /\ UNCHANGED notLamVars

\* await useCase(parsedInput) rejects with an error of some class
LambdaUseCaseRejects ==
  /\ lamPc = "usecase"
  /\ lamPc' = "done"
  /\ \E c \in {"Error", "AppError", "ZodError"} :
       lamResponse' = handleError(MkError(c, "use case failed"))
  /\ UNCHANGED <<lamOptions, lamEnv, event, validUser, lamLog>>
  /\ UNCHANGED notLamVars

LambdaNext ==
  \/ LambdaInvoke
  \/ GetUserInfoResolves
  \/ GetUserInfoRejects
  \/ LambdaUseCaseResolves
  \/ LambdaUseCaseRejects

LambdaInit == LambdaInvoked /\ SagaNew /\ SqsIdle /\ RetryIdle /\ ClassifyIdle /\ ResearchIdle /\ RegIdle

LambdaSpec == LambdaInit /\ [][LambdaNext]_vars

(***************************************************************************)
(* requestResearchAdapter: createLambdaAdapter with researchEventParser,   *)
(* RequestResearchInputSchema, executeResearchUsecase and                  *)
(* researchAdapterOptions.  A body field "value" is the string "x" for     *)
(* prompt and "given" for id, "empty" is the empty string.                 *)
(***************************************************************************)
researchAdapterOptions ==
  [requireAuth |-> "true", requireBody |-> "true", requiredFields |-> {"prompt"}]

\* uuidv4() in the default of RequestResearchInputSchema.id: evaluated once,
\* when the schema module is loaded
GeneratedId == "uuid0"

\* an invocation of the handler of requestResearchAdapter with some event
ResearchInvoked ==
  /\ lamOptions = researchAdapterOptions
  /\ lamEnv = [parserThrows |-> FALSE, schemaOk |-> TRUE, formatterThrows |-> FALSE]
  /\ event \in [auth : AuthKinds, body : Bodies]
  /\ lamPc = "start"
  /\ validUser = [userId |-> ""]
  /\ lamLog = <<>>
  /\ lamResponse = NoOutcome
  /\ ResearchIdle

ResearchInit == ResearchInvoked /\ SagaNew /\ SqsIdle /\ RetryIdle /\ ClassifyIdle /\ RegIdle

StringOf(f, v) == IF v = "empty" THEN "" ELSE IF f = "prompt" THEN "x" ELSE "given"

RequestResearchInputSchemaKeyOptional(fields, user) ==
  /\ fields["prompt"] \in {"empty", "value"}
  /\ fields["id"] \in {"absent", "empty", "value"}

\* RequestResearchInputSchema accepts {...parsedBody, ...validUser}: prompt a
\* string, id a string or undefined, userId a string, keyId a string
RequestResearchInputSchema(fields, user) ==
  /\ fields["prompt"] \in {"empty", "value"}
  /\ fields["id"] \in {"absent", "empty", "value"}
  /\ user.keyId # "undefined"

\* what RequestResearchInputSchema.parse returns for an accepted object
researchEventParser(fields, user) ==
  [prompt |-> StringOf("prompt", fields["prompt"]),
   id     |-> IF fields["id"] = "absent" THEN GeneratedId ELSE StringOf("id", fields["id"]),
   userId |-> user.userId,
   keyId  |-> user.keyId]

\* PendingResearchSchema.parse({researchId: input.id, userId, title, ...})
PendingResearch(input) ==
  [researchId     |-> input.id,
   userId         |-> input.userId,
   title          |-> <<"Research for: ", input.prompt, "...">>,
   content        |-> "",
   citation_links |-> <<>>,
   researchStatus |-> "pending"]

\* OrchestratorHttpResponses.ACCEPTED({ body: result })
ResearchResponseFormatter(result) == createHttpResponse(ACCEPTED, result)

\* await getUserInfo(event) resolves: the userId check, the body checks,
\* researchEventParser, schema.parse, and executeResearchUsecase up to the
\* await of updateUserCredits
ResearchUserResolves ==
  /\ lamPc = "auth"
  /\ ~getValidUser(event.auth).threw
  /\ validUser' = getValidUser(event.auth).user
  /\ IF validUser'.userId = ""
       THEN /\ lamPc' = "done"
            /\ lamResponse' = handleError(createError(BAD_REQUEST, "Missing user id"))
            /\ lamLog' = lamLog
            /\ UNCHANGED <<researchInput, researchCalls, researchPc>>
     ELSE IF BodyStage.error # NoError
       THEN /\ lamPc' = "done"
            /\ lamResponse' = handleError(BodyStage.error)
            /\ lamLog' = lamLog \o BodyStage.log
            /\ UNCHANGED <<researchInput, researchCalls, researchPc>>
     ELSE IF ~RequestResearchInputSchema(event.body.fields, validUser')
       THEN /\ lamPc' = "done"
            /\ lamResponse' = handleError(MkError("ZodError", "invalid input"))
            /\ lamLog' = lamLog \o BodyStage.log \o <<"eventParser">>
            /\ UNCHANGED <<researchInput, researchCalls, researchPc>>
     ELSE /\ lamPc' = "usecase"
          /\ lamResponse' = NoOutcome
          /\ lamLog' = lamLog \o BodyStage.log \o <<"eventParser", "schema", "useCase">>
          /\ researchInput' = researchEventParser(event.body.fields, validUser')
          /\ researchCalls' = researchCalls + 1
          /\ researchPc' = "decrement"
  /\ UNCHANGED <<lamOptions, lamEnv, event, creditsUsed, researchTable, backgroundRuns>>
  /\ UNCHANGED researchProcVars
  /\ UNCHANGED notResearchVars

\* await apiKeyService.updateUserCredits(...) resolves: PendingResearchSchema.parse,
\* researchRepository.saveResearch is called
DecrementResolves ==
  /\ researchPc = "decrement"
  /\ creditsUsed' = creditsUsed + 1
  /\ researchPc' = "save"
  /\ UNCHANGED <<lamVars, researchInput, researchCalls, researchTable, backgroundRuns>>
  /\ UNCHANGED researchProcVars
  /\ UNCHANGED notResearchVars

\* await apiKeyService.updateUserCredits(...) rejects: the use case rejects
DecrementRejects ==
  /\ researchPc = "decrement"
  /\ researchPc' = "failed"
  /\ lamPc' = "done"
  /\ lamResponse' = handleError(MkError("Error", "Failed to update credits"))
  /\ UNCHANGED <<lamOptions, lamEnv, event, validUser, lamLog>>
  /\ UNCHANGED <<researchInput, researchCalls, creditsUsed, researchTable, backgroundRuns>>
  /\ UNCHANGED researchProcVars
  /\ UNCHANGED notResearchVars

\* await researchRepository.saveResearch(initialResearch) resolves: the item
\* is in the table, runResearchUsecase(input) is started and not awaited,
\* the pending entry is returned and formatted
SaveResolves ==
  /\ researchPc = "save"
  /\ researchTable' =
       {item \in researchTable : item.researchId # researchInput.id}
         \cup {PendingResearch(researchInput)}
  /\ backgroundRuns' = backgroundRuns + 1
  /\ bgRuns' = Append(bgRuns, [input     |-> researchInput,
                                idOmitted |-> event.body.fields["id"] = "absent",
                                pc        |-> "running"])
  /\ researchPc' = "returned"
  /\ lamPc' = "done"
  /\ lamLog' = Append(lamLog, "responseFormatter")
  /\ lamResponse' = ResearchResponseFormatter(PendingResearch(researchInput))
  /\ UNCHANGED <<lamOptions, lamEnv, event, validUser>>
  /\ UNCHANGED <<researchInput, researchCalls, creditsUsed, requestNo, getResponse>>
  /\ UNCHANGED notResearchVars

\* await researchRepository.saveResearch(initialResearch) rejects
SaveRejects ==
  /\ researchPc = "save"
  /\ researchPc' = "failed"
  /\ lamPc' = "done"
  /\ lamResponse' = handleError(MkError("Error", "save failed"))
  /\ UNCHANGED <<lamOptions, lamEnv, event, validUser, lamLog>>
  /\ UNCHANGED <<researchInput, researchCalls, creditsUsed, researchTable, backgroundRuns>>
  /\ UNCHANGED researchProcVars
  /\ UNCHANGED notResearchVars

ResearchNext ==
  \/ LambdaInvoke
  \/ GetUserInfoRejects
  \/ ResearchUserResolves
  \/ DecrementResolves
  \/ DecrementRejects
  \/ SaveResolves
  \/ SaveRejects

ResearchSpec == ResearchInit /\ [][ResearchNext]_vars

(***************************************************************************)
(* One process serving research requests one after the other, the          *)
(* background runs its requests started, and getResearchByIdAdapter.       *)
(***************************************************************************)
OK == 200

ProcessEvents ==
  { [auth |-> a,
     body |-> [kind |-> "object", fields |-> [f \in Fields |-> IF f = "prompt" THEN "value" ELSE i]]] :
      a \in {"none", "valid_key"}, i \in {"absent", "value"} }

\* the first request reaches the handler of a freshly loaded process
ResearchProcessStarted ==
  /\ lamOptions = researchAdapterOptions
  /\ lamEnv = [parserThrows |-> FALSE, schemaOk |-> TRUE, formatterThrows |-> FALSE]
  /\ event \in ProcessEvents
  /\ lamPc = "start"
  /\ validUser = [userId |-> ""]
  /\ lamLog = <<>>
  /\ lamResponse = NoOutcome
  /\ ResearchIdle

ResearchProcessInit == ResearchProcessStarted /\ SagaNew /\ SqsIdle /\ RetryIdle /\ ClassifyIdle /\ RegIdle

\* the handler has returned and the same process is handed the next request;
\* the schema module, the table and the key's credits are what they were
NextRequest ==
  /\ lamPc = "done"
  /\ requestNo + 1 < MaxRequests
  /\ requestNo' = requestNo + 1
  /\ event' \in ProcessEvents
  /\ lamPc' = "start"
  /\ validUser' = [userId |-> ""]
  /\ lamLog' = <<>>
  /\ lamResponse' = NoOutcome
  /\ researchInput' = NoOutcome
  /\ researchCalls' = 0
  /\ researchPc' = "idle"
  /\ UNCHANGED <<lamOptions, lamEnv, creditsUsed, researchTable, backgroundRuns, bgRuns,
                 getResponse>>
  /\ UNCHANGED notResearchVars

\* what executeResearch returns: RequestResearchOutputSchema.parse({researchId:
\* input.id, title, content, citation_links}), researchStatus by default
executeResearch(input) ==
  [researchId     |-> input.id,
   title          |-> "generated title",
   content        |-> "generated summary",
   citation_links |-> <<"link">>,
   researchStatus |-> "pending"]

\* SaveResearchSchema.parse(obj): the five fields of the schema, any other
\* key is stripped
SaveResearchSchema(obj) ==
  [f \in {"researchId", "userId", "title", "content", "citation_links"} |-> obj[f]]

\* {...research, userId: input.userId} after research.researchStatus = COMPLETED
CompletedResearch(input) ==
  [f \in DOMAIN executeResearch(input) \cup {"userId"} |->
     IF f = "userId" THEN input.userId
     ELSE IF f = "researchStatus" THEN "completed"
     ELSE executeResearch(input)[f]]

\* RequestResearchOutputSchema.parse(item): its four fields, any other key is
\* stripped, researchStatus defaults to pending
RequestResearchOutputSchema(item) ==
  [f \in {"researchId", "title", "content", "citation_links", "researchStatus"} |->
     IF f = "researchStatus"
       THEN (IF "researchStatus" \in DOMAIN item THEN item.researchStatus ELSE "pending")
       ELSE item[f]]

\* PutCommand({Item}): the item replaces the one with the same researchId
PutItem(table, item) ==
  {old \in table : old.researchId # item.researchId} \cup {item}

\* await runResearch(input) resolves: status set, SaveResearchSchema.parse,
\* researchRepository.saveResearch is called
RunResearchResolves(k) ==
  /\ k \in 1..Len(bgRuns)
  /\ bgRuns[k].pc = "running"
  /\ bgRuns' = [bgRuns EXCEPT ![k].pc = "saving"]
  /\ UNCHANGED <<lamVars, researchInput, researchCalls, researchPc, creditsUsed,
                 researchTable, backgroundRuns, requestNo, getResponse>>
  /\ UNCHANGED notResearchVars

\* await runResearch(input) rejects: catch, throw new Error('Failed to perform
\* research'); the .catch of executeResearchUsecase logs it
RunResearchRejects(k) ==
  /\ k \in 1..Len(bgRuns)
  /\ bgRuns[k].pc = "running"
  /\ bgRuns' = [bgRuns EXCEPT ![k].pc = "run_failed"]
  /\ UNCHANGED <<lamVars, researchInput, researchCalls, researchPc, creditsUsed,
                 researchTable, backgroundRuns, requestNo, getResponse>>
  /\ UNCHANGED notResearchVars

\* await researchRepository.saveResearch(researchWithUserId) resolves
BackgroundSaveResolves(k) ==
  /\ k \in 1..Len(bgRuns)
  /\ bgRuns[k].pc = "saving"
  /\ researchTable' =
       PutItem(researchTable, SaveResearchSchema(CompletedResearch(bgRuns[k].input)))
  /\ bgRuns' = [bgRuns EXCEPT ![k].pc = "completed"]
  /\ UNCHANGED <<lamVars, researchInput, researchCalls, researchPc, creditsUsed,
                 backgroundRuns, requestNo, getResponse>>
  /\ UNCHANGED notResearchVars

\* await researchRepository.saveResearch(researchWithUserId) rejects
BackgroundSaveRejects(k) ==
  /\ k \in 1..Len(bgRuns)
  /\ bgRuns[k].pc = "saving"
  /\ bgRuns' = [bgRuns EXCEPT ![k].pc = "save_failed"]
  /\ UNCHANGED <<lamVars, researchInput, researchCalls, researchPc, creditsUsed,
                 researchTable, backgroundRuns, requestNo, getResponse>>
  /\ UNCHANGED notResearchVars

Principals == {"u1", "u2"}

ResearchIds == {GeneratedId, "given", "unknown"}

\* OrchestratorHttpResponses.OK({ body: result })
GetResearchResponseFormatter(result) == createHttpResponse(OK, result)

\* getResearchUsecase({userId, researchId}): getResearchById is keyed by the
\* research id alone; a missing item ends as Error('Failed to generate research')
getResearchUsecase(principal, researchId) ==
  IF \E item \in researchTable : item.researchId = researchId
    THEN LET item == CHOOSE i \in researchTable : i.researchId = researchId IN
           [item     |-> item,
            response |-> GetResearchResponseFormatter(
                           [message |-> "Research completed successfully",
                            data    |-> RequestResearchOutputSchema(item)])]
    ELSE [item     |-> NoOutcome,
          response |-> handleError(MkError("Error", "Failed to generate research"))]

\* an invocation of getResearchByIdAdapter by a verified principal with a
\* research id as path parameter, from the event to the response
GetResearchById ==
  /\ getResponse = NoOutcome
  /\ \E principal \in Principals, researchId \in ResearchIds :
       getResponse' = [principal  |-> principal,
                       researchId |-> researchId,
                       item       |-> getResearchUsecase(principal, researchId).item,
                       response   |-> getResearchUsecase(principal, researchId).response]
  /\ UNCHANGED <<lamVars, researchInput, researchCalls, researchPc, creditsUsed,
                 researchTable, backgroundRuns, bgRuns, requestNo>>
  /\ UNCHANGED notResearchVars

BackgroundNext ==
  \E k \in 1..MaxRequests :
    \/ RunResearchResolves(k)
    \/ RunResearchRejects(k)
    \/ BackgroundSaveResolves(k)
    \/ BackgroundSaveRejects(k)

ResearchProcessNext ==
  \/ LambdaInvoke
  \/ GetUserInfoRejects
  \/ ResearchUserResolves
  \/ DecrementResolves
  \/ DecrementRejects
  \/ SaveResolves
  \/ SaveRejects
  \/ NextRequest
  \/ \E k \in 1..MaxRequests : RunResearchResolves(k)
  \/ \E k \in 1..MaxRequests : RunResearchRejects(k)
  \/ \E k \in 1..MaxRequests : BackgroundSaveResolves(k)
  \/ \E k \in 1..MaxRequests : BackgroundSaveRejects(k)
  \/ GetResearchById

ResearchProcessSpec == ResearchProcessInit /\ [][ResearchProcessNext]_vars

\* the background calls (LLM, database) terminate
ResearchProcessLiveSpec == ResearchProcessSpec /\ WF_vars(BackgroundNext)

(***************************************************************************)
(* requestResearchAdapter properties                                       *)
(***************************************************************************)
PromptOnlyBody ==
  /\ event.body.kind = "object"
  /\ event.body.fields["prompt"] = "value"
  /\ event.body.fields["id"] = "absent"

C27_GeneratedIdsDistinct ==
  \A p, q \in 1..Len(bgRuns) :
    (p < q /\ bgRuns[p].idOmitted /\ bgRuns[q].idOmitted) =>
      bgRuns[p].input.id # bgRuns[q].input.id

\* the status a reader of the table gets for a research id
ReadsAs(researchId) ==
  IF \E item \in researchTable : item.researchId = researchId
    THEN RequestResearchOutputSchema(
           CHOOSE item \in researchTable : item.researchId = researchId).researchStatus
    ELSE "none"

\* C29 (as stated): every accepted request eventually leaves the pending
\* status: its record eventually reads as completed or failed.
C29_EventuallyLeavesPending ==
  \A k \in 1..MaxRequests :
    (Len(bgRuns) >= k) ~>
      (Len(bgRuns) >= k /\ ReadsAs(bgRuns[k].input.id) \in {"completed", "failed"})

\* C30 (as stated): getResearchByIdAdapter returns an item in a success
\* response only when the item's owner is the verified principal.
C30_OnlyOwnResearch ==
  (getResponse # NoOutcome /\ getResponse.response.statusCode = OK) =>
    getResponse.item.userId = getResponse.principal

\* C28 (as stated): the caller's credit balance is decremented by exactly 1
\* if and only if the request is answered 202; whenever the adapter returns
\* an error response the balance is unchanged.
C28_ChargedIffAccepted ==
  lamPc = "done" =>
    /\ creditsUsed \in {0, 1}
    /\ (creditsUsed = 1 <=> lamResponse.statusCode = ACCEPTED)

(***************************************************************************)
(* Request adapter properties                                              *)
(***************************************************************************)
Did(step) == \E p \in 1..Len(lamLog) : lamLog[p] = step

Unauthenticated == event.auth \in {"none", "invalid", "no_sub"}

\* C9 (as stated): with requireAuth enabled, a request without a verifiable
\* credential is answered with status 401 and the use case is never invoked.
C9_UnauthenticatedGets401 ==
  (NotFalse(lamOptions.requireAuth) /\ Unauthenticated) =>
    /\ ~Did("useCase")
    /\ (lamPc = "done" => lamResponse.statusCode = UNAUTHORIZED)

BodyMissing == event.body.kind \in {"absent", "empty"}

Authenticated == ~NotFalse(lamOptions.requireAuth) \/ event.auth \in {"valid", "valid_key"}

MentionsMissingBody(m) == m = "Missing request body"

\* C10 (as stated): with requireBody enabled, a request that got past
\* authentication and has no body is answered with status 400 and a message
\* that mentions the missing body; event parser, schema validation and use
\* case are never invoked.
C10_MissingBodyGets400 ==
  (NotFalse(lamOptions.requireBody) /\ BodyMissing /\ Authenticated) =>
    /\ ~Did("eventParser") /\ ~Did("schema") /\ ~Did("useCase")
    /\ (lamPc = "done" =>
          /\ lamResponse.statusCode = BAD_REQUEST
          /\ MentionsMissingBody(lamResponse.message))

StepOrder ==
  <<"getUserInfo", "bodyCheck", "fieldCheck", "eventParser", "schema", "useCase",
    "responseFormatter">>

Rank(step) == CHOOSE k \in 1..Len(StepOrder) : StepOrder[k] = step

\* C23: the handler takes its steps in the order identity resolution, body
\* presence check, required-field check, event parser, schema validation,
\* use case, response formatter; no step is taken twice, a step that failed
\* is the last one taken, and the use case is invoked only after the schema
\* accepted the parser's output.
C23_FixedStepOrder ==
  /\ \A p \in 1..Len(lamLog) : \E k \in 1..Len(StepOrder) : StepOrder[k] = lamLog[p]
  /\ \A p, q \in 1..Len(lamLog) : p < q => Rank(lamLog[p]) < Rank(lamLog[q])
  /\ (Did("getUserInfo") <=> (NotFalse(lamOptions.requireAuth) /\ lamPc # "start"))
  /\ (Did("fieldCheck") => Did("bodyCheck"))
  /\ (Did("bodyCheck") => NotFalse(lamOptions.requireBody))
  /\ (Did("eventParser") =>
        /\ (NotFalse(lamOptions.requireBody) => Did("bodyCheck"))
        /\ (NotFalse(lamOptions.requireAuth) => validUser.userId # "")
        /\ event.body.kind \notin
             (IF NotFalse(lamOptions.requireBody) THEN {"absent", "empty", "invalid_json"}
              ELSE {}))
  /\ (Did("schema") => Did("eventParser") /\ ~lamEnv.parserThrows)
  /\ (Did("useCase") => Did("schema") /\ lamEnv.schemaOk)
  /\ (Did("responseFormatter") => Did("useCase") /\ lamPc = "done")
  /\ ((lamPc = "done" /\ lamResponse.statusCode # ACCEPTED) =>
        (~Did("responseFormatter") \/ lamEnv.formatterThrows))

C23_Witness ==
  /\ lamPc = "done"
  /\ lamLog = StepOrder
  /\ lamResponse.statusCode = ACCEPTED

\* C19: the promise returned by the handler never rejects: whatever step
\* throws, the response formatter included, the handler resolves with an
\* HTTP response that has a status code, headers, a body and
\* isBase64Encoded.
C19_HandlerNeverRejects ==
  /\ lamResponse.kind # "rejected"
  /\ (lamPc # "done" => lamResponse = NoOutcome)
  /\ (lamPc = "done" =>
        /\ lamResponse.kind = "response"
        /\ DOMAIN lamResponse =
             {"kind", "statusCode", "headers", "message", "isBase64Encoded"}
        /\ lamResponse.statusCode \in {ACCEPTED, BAD_REQUEST, INTERNAL_SERVER_ERROR}
        /\ lamResponse.isBase64Encoded = FALSE
        /\ (lamResponse.statusCode # ACCEPTED =>
              lamResponse.message \in {"AppError", "Zod validation error",
                                       "Invalid JSON in request body",
                                       "Internal Server Error"}))

C19_Witness ==
  /\ lamPc = "done"
  /\ lamEnv.formatterThrows
  /\ Did("responseFormatter")
  /\ lamResponse.kind = "response"
  /\ lamResponse.statusCode = INTERNAL_SERVER_ERROR

FieldChecked == lamOptions.requiredFields # {}

SomeListedFieldAbsent ==
  \E f \in lamOptions.requiredFields : event.body.fields[f] = "absent"

\* C20 (as stated): whenever requiredFields is configured, whatever
\* requireBody is, a request that is otherwise in order (authenticated, a
\* JSON object as body, parser and schema accept it) is answered with a 400
\* and kept from the use case if and only if some listed field is absent
\* from the parsed body.
C20_AbsentFieldIffRejected ==
  (/\ FieldChecked
   /\ Authenticated
   /\ event.body.kind = "object"
   /\ ~lamEnv.parserThrows
   /\ lamEnv.schemaOk
   /\ lamPc \in {"usecase", "done"}) =>
    (SomeListedFieldAbsent <=>
       /\ ~Did("useCase")
       /\ lamPc = "done"
       /\ lamResponse.statusCode = BAD_REQUEST)

(***************************************************************************)
(* handleError properties                                                  *)
(***************************************************************************)
IsValidationError(e) == e.class = "ZodError"

IsAuthenticationError(e) ==
  \/ e.class = "Error" /\ e.message = "Unauthorized"
  \/ e.class = "AppError" /\ e.statusCode = UNAUTHORIZED

IsNotFound(e) ==
  \/ e.class = "Error" /\ e.message = "Research not found"
  \/ e.class = "AppError" /\ e.statusCode = NOT_FOUND

\* C16 (as stated): a validation error is classified as 400 with a body
\* {message, errors}, an authentication error as 401 and a not-found
\* condition as 404.
C16_StableStatusPerClass ==
  classified # NoOutcome =>
    /\ (IsValidationError(thrown) =>
          /\ classified.statusCode = BAD_REQUEST
          /\ "errors" \in DOMAIN classified)
    /\ (IsAuthenticationError(thrown) => classified.statusCode = UNAUTHORIZED)
    /\ (IsNotFound(thrown) => classified.statusCode = NOT_FOUND)

(***************************************************************************)
(* withRetry (tools/retry.ts)                                              *)
(* fnScript[k] is what the k-th invocation of the wrapped function does:   *)
(* "ok", or the class of the error it throws.  The error object thrown by  *)
(* invocation k is [class, attempt |-> k].                                 *)
(***************************************************************************)
FnOutcomes == {"ok", "ZodError", "SyntaxError", "Error"}

\* a call of the wrapper returned by withRetry(fn, config)
RetryCalled ==
  /\ retries \in 0..MaxRetries
  /\ fnScript \in [1..MaxRetries -> FnOutcomes]
  /\ attempt = 0
  /\ retryPc = "start"
  /\ fnCalls = 0
  /\ sleeps = 0
  /\ onRetryCalls = 0
  /\ retryOutcome = NoOutcome

RetryInit == RetryCalled /\ SagaNew /\ SqsIdle /\ LambdaIdle /\ ClassifyIdle /\ ResearchIdle /\ RegIdle

IsRetryableAny(class) == TRUE

\* error instanceof ZodError || error instanceof SyntaxError
IsRetryable(class) == class \in {"ZodError", "SyntaxError"}

FinalErrorGeneric(err) ==
  [class |-> "Error", message |-> "Max retries reached. Unable to generate valid output."]

\* throw error (lines 24 and 28): the caught error object itself
FinalError(err) == err

\* for (let attempt = 1; attempt <= config.retries; ...): first iteration, or
\* the throw after the loop when it runs no iteration
retryInvoke ==
  /\ retryPc = "start"
  /\ attempt' = 1
  /\ IF 1 <= retries
       THEN /\ retryPc' = "calling"
            /\ fnCalls' = fnCalls + 1
            /\ retryOutcome' = NoOutcome
       ELSE /\ retryPc' = "rejected"
            /\ fnCalls' = fnCalls
            /\ retryOutcome' =
                 [kind |-> "rejected",
                  error |-> [class |-> "Error",
                             message |-> "Max retries reached. Unable to generate valid output."]]
  /\ UNCHANGED <<retries, fnScript, sleeps, onRetryCalls>>
  /\ UNCHANGED notRetryVars

\* return await fn(...args) resolves
fnResolves ==
  /\ retryPc = "calling"
  /\ fnScript[fnCalls] = "ok"
  /\ retryPc' = "resolved"
  /\ retryOutcome' = [kind |-> "resolved", value |-> [attempt |-> fnCalls]]
  /\ UNCHANGED <<retries, fnScript, attempt, fnCalls, sleeps, onRetryCalls>>
  /\ UNCHANGED notRetryVars

\* await fn(...args) rejects: the catch block
fnRejects ==
  /\ retryPc = "calling"
  /\ fnScript[fnCalls] # "ok"
  /\ IF IsRetryable(fnScript[fnCalls]) /\ attempt < retries
       THEN /\ retryPc' = "sleeping"
            /\ sleeps' = sleeps + 1
            /\ retryOutcome' = NoOutcome
       ELSE /\ retryPc' = "rejected"
            /\ sleeps' = sleeps
            /\ retryOutcome' =
                 [kind |-> "rejected",
                  error |-> FinalError([class |-> fnScript[fnCalls], attempt |-> fnCalls])]
  /\ UNCHANGED <<retries, fnScript, attempt, fnCalls, onRetryCalls>>
  /\ UNCHANGED notRetryVars

\* the setTimeout delay is over: attempt++, the loop condition holds, fn again
sleepEnds ==
  /\ retryPc = "sleeping"
  /\ attempt' = attempt + 1
  /\ retryPc' = "calling"
  /\ fnCalls' = fnCalls + 1
  /\ UNCHANGED <<retries, fnScript, sleeps, onRetryCalls, retryOutcome>>
  /\ UNCHANGED notRetryVars

RetryNext ==
  \/ retryInvoke
  \/ fnResolves
  \/ fnRejects
  \/ sleepEnds

RetrySpec == RetryInit /\ [][RetryNext]_vars

\* execute calls of the current run that were started and have not settled
InFlightExecutes ==
  Len(execLog) - execI - (IF sagaError # NoError THEN 1 ELSE 0)

\* compensate calls of the current run that were started and have not settled
InFlightCompensates ==
  IF sagaError = NoError THEN 0 ELSE Len(compLog) - ((completedSteps - 1) - compI)

\* C22: the steps of a saga run strictly one after the other: step i+1 is
\* started only when steps 0..i have resolved, at most one execute or
\* compensate call is in flight at any time, and a compensate starts only
\* after the failing execute has rejected.
C22_StrictlySequential ==
  /\ InFlightExecutes \in {0, 1}
  /\ InFlightCompensates \in {0, 1}
  /\ InFlightExecutes + InFlightCompensates <= 1
  /\ \A p \in 1..Len(execLog) : execLog[p] = p - 1
  /\ Len(execLog) <= execI + 1
  /\ (compLog # <<>> =>
        /\ sagaError # NoError
        /\ sagaError.src = "execute"
        /\ sagaError.step = execI
        /\ InFlightExecutes = 0)

C22_Witness ==
  /\ sagaPc = "compensating"
  /\ execLog = <<0, 1, 2>>
  /\ sagaError # NoError
  /\ sagaError.step = 2
  /\ compLog = <<1, 0>>
  /\ InFlightCompensates = 1

\* C18 (as stated): after any sequence of addStep and execute calls, a
\* repeated execute on the same instance included,
\* completedSteps <= len(results) <= len(steps).
C18_CountsBounded ==
  /\ completedSteps <= Len(results)
  /\ Len(results) <= Len(steps)

(***************************************************************************)
(* SQS adapter: batch result                                               *)
(***************************************************************************)
BatchDone == sqsPc = "done" /\ sqsOptions.continueOnError /\ Len(records) > 0

IsErrorEntry(e) == "error" \in DOMAIN e

\* the record an entry names, 0 if it names none
EntryRecordId(e) == IF "recordId" \in DOMAIN e THEN e.recordId ELSE 0

InProcess(r) == recPc[r] \in {"usecase", "deleting"}

ReachedOutcome(r) == recPc[r] \in {"returned", "errored"}

\* C24: with processInParallel=false the records are taken in array order,
\* one at a time: a record is taken up only when every earlier record has
\* reached its outcome (deleted, or its error recorded), at most one record
\* is in process at any time, and the entries of the batch result are in
\* record order.
C24_SequentialInOrder ==
  ~sqsOptions.processInParallel =>
    /\ Cardinality({r \in RecIds : InProcess(r)}) <= 1
    /\ \A r \in RecIds :
         recPc[r] # "pending" =>
           /\ r <= seqIdx
           /\ \A q \in 1..(r - 1) : ReachedOutcome(q)
    /\ Len(seqResults) <= Len(records)
    /\ \A p \in 1..Len(seqResults) :
         /\ ReachedOutcome(p)
         /\ seqResults[p] = Entry(p)
    /\ ((sqsPc = "done" /\ sqsResponse.kind = "results") =>
          /\ sqsResponse.entries = seqResults
          /\ Len(seqResults) = Len(records))

C24_Witness ==
  /\ ~sqsOptions.processInParallel
  /\ sqsPc = "done"
  /\ Len(records) = 3
  /\ sqsResponse.kind = "results"
  /\ sqsResponse.entries[1] = [result |-> 1]
  /\ IsErrorEntry(sqsResponse.entries[2])
  /\ sqsResponse.entries[3] = [result |-> 3]

\* C26: the promise returned by the handler never rejects: an empty batch
\* and a record error rethrown under continueOnError=false both end in the
\* outer catch, and the handler returns the classified error response, also
\* when the failing record was not deleted.
C26_SqsHandlerNeverRejects ==
  /\ sqsResponse.kind # "rejected"
  /\ (sqsPc # "done" => sqsResponse = NoOutcome)
  /\ (sqsPc = "done" =>
        /\ sqsResponse.kind \in {"results", "response"}
        /\ (Len(records) = 0 => sqsResponse.kind = "response")
        /\ (firstRejected # 0 =>
              /\ ~sqsOptions.continueOnError
              /\ sqsResponse = handleError(ErrorOf(firstRejected))
              /\ sqsResponse.statusCode \in {BAD_REQUEST, INTERNAL_SERVER_ERROR}
              /\ deleted[firstRejected] = 0)
        /\ ((Len(records) > 0 /\ firstRejected = 0) => sqsResponse.kind = "results"))

C26_Witness ==
  /\ sqsPc = "done"
  /\ ~sqsOptions.continueOnError
  /\ sqsOptions.processInParallel
  /\ firstRejected # 0
  /\ recFail[firstRejected] = "usecase"
  /\ deleted[firstRejected] = 0
  /\ sqsResponse.kind = "response"

\* C17: a batch without records is a fatal failure of the whole batch
\* whatever continueOnError is: the handler goes straight to the fatal
\* catch and answers with the classified error response, no record is ever
\* taken up and no result list is built.
C17_EmptyBatchIsFatal ==
  Len(records) = 0 =>
    /\ sqsPc \in {"start", "done"}
    /\ seqIdx = 0
    /\ seqResults = <<>>
    /\ firstRejected = 0
    /\ DOMAIN ucCalls = {} /\ DOMAIN delCalls = {}
    /\ (sqsPc = "done" =>
          sqsResponse = createHttpResponse(INTERNAL_SERVER_ERROR, "Internal Server Error"))

C17_Witness ==
  /\ Len(records) = 0
  /\ sqsPc = "done"
  /\ sqsOptions.continueOnError
  /\ sqsResponse.kind = "response"
  /\ sqsResponse.statusCode = INTERNAL_SERVER_ERROR

(***************************************************************************)
(* withRetry properties                                                    *)
(***************************************************************************)
RetrySettled == retryPc \in {"resolved", "rejected"}

\* the first invocation that succeeds or throws a non-retryable error
\* (MaxRetries + 1 if no invocation of the script does)
RetryableClasses == {"ZodError", "SyntaxError"}

FirstStop ==
  IF \E k \in 1..MaxRetries : fnScript[k] \notin RetryableClasses
    THEN CHOOSE k \in 1..MaxRetries :
           /\ fnScript[k] \notin RetryableClasses
           /\ \A j \in 1..(k - 1) : fnScript[j] \in RetryableClasses
    ELSE MaxRetries + 1

MinOf(a, b) == IF a <= b THEN a ELSE b

C12_OnRetryBeforeEachSleep == onRetryCalls = sleeps

AllAttemptsFailRetryable ==
  /\ retries >= 1
  /\ \A k \in 1..retries : fnScript[k] \in RetryableClasses

\* C13: when every attempt fails with a retryable error, the wrapper rejects
\* with the error object of the last attempt itself, and it does not sleep
\* after that attempt.
C13_LastErrorRethrown ==
  AllAttemptsFailRetryable =>
    /\ retryPc # "resolved"
    /\ sleeps <= retries - 1
    /\ (retryPc = "rejected" =>
          /\ fnCalls = retries
          /\ sleeps = retries - 1
          /\ retryOutcome =
               [kind |-> "rejected",
                error |-> [class |-> fnScript[retries], attempt |-> retries]])

C13_Witness ==
  /\ retryPc = "rejected"
  /\ retries = 3
  /\ fnScript[1] = "ZodError" /\ fnScript[2] = "SyntaxError" /\ fnScript[3] = "ZodError"
  /\ sleeps = 2
  /\ retryOutcome.error = [class |-> "ZodError", attempt |-> 3]

(***************************************************************************)
(* User registration: registerUserUseCase and the saga built by the        *)
(* singleton userRegistrationSagaBuilder                                   *)
(***************************************************************************)
\* the last step of the saga built by build()
RegSteps == 4

RegInvoked == RegIdle

RegInit == RegInvoked /\ SagaNew /\ SqsIdle /\ LambdaIdle /\ RetryIdle /\ ClassifyIdle /\ ResearchIdle

\* the userAdapter call made by the execute closure of a step, reading the
\* builder's fields at the time of the call
ExecuteCall(step, user, key) ==
  CASE step = 1 -> [called |-> TRUE, userId |-> user, keyId |-> NoKey]
    [] step = 2 -> [called |-> TRUE, userId |-> user, keyId |-> NoKey]
    [] step = 3 -> IF key # NoKey
                   THEN [called |-> TRUE, userId |-> user, keyId |-> key]
                   ELSE NoCall   \* throw new Error('No API key generated ...')
    [] OTHER    -> [called |-> TRUE, userId |-> user, keyId |-> key]

\* the userAdapter call made by the compensate closure of a step
CompensateCall(step, user, key) ==
  CASE step = 1 -> NoCall        \* "User deletion compensation not implemented"
    [] step = 2 -> IF key # NoKey
                   THEN [called |-> TRUE, userId |-> user, keyId |-> key]
                   ELSE NoCall
    [] step = 3 -> IF key # NoKey
                   THEN [called |-> TRUE, userId |-> user, keyId |-> key]
                   ELSE NoCall
    [] OTHER    -> [called |-> TRUE, userId |-> user, keyId |-> NoKey]

\* invocation i starts awaiting the closure of a step
CallStep(i, phase, step, call) ==
  /\ regPc' = [regPc EXCEPT ![i] = phase]
  /\ regStep' = [regStep EXCEPT ![i] = step]
  /\ regCall' = [regCall EXCEPT ![i] = call]
  /\ regLog' = IF call.called
               THEN regLog \cup {[inv |-> i, userId |-> call.userId, keyId |-> call.keyId]}
               ELSE regLog

\* the promise of registerUserUseCase(i) settles
RegSettle(i, outcome) ==
  /\ regPc' = [regPc EXCEPT ![i] = outcome]
  /\ regStep' = [regStep EXCEPT ![i] = 0]
  /\ regCall' = [regCall EXCEPT ![i] = NoCall]
  /\ regLog' = regLog

\* compensate(): the loop from step j down to the first step
CompensateFrom(i, j) ==
  IF j = 0
  THEN RegSettle(i, "rejected")
  ELSE CallStep(i, "compensate", j, CompensateCall(j, newUserData, generatedKeyId))

ItemsOf(userId) == {item \in Users : item.userId = userId}

\* registerUser: PutCommand of {...user, createdAt, updatedAt}
registerUser(userId) ==
  (Users \ ItemsOf(userId)) \cup {[userId |-> userId, keyId |-> NoKey, apiKey |-> NoKey]}

\* saveApiKeyToDatabase: UpdateCommand SET keyId, apiKeystatus (creates the item when absent)
saveApiKeyToDatabase(userId, key) ==
  IF ItemsOf(userId) = {}
  THEN Users \cup {[userId |-> userId, keyId |-> key, apiKey |-> NoKey]}
  ELSE {IF item.userId = userId THEN [item EXCEPT !.keyId = key] ELSE item : item \in Users}

\* ConditionExpression "apiKey = :currentApiKey" of deleteApiKeys
deleteApiKeysCondition(userId, key) ==
  \E item \in ItemsOf(userId) : item.apiKey # NoKey /\ item.apiKey = key

\* deleteApiKeys: UpdateCommand REMOVE apiKey on the Users table
deleteApiKeys(userId, key) ==
  {IF item.userId = userId THEN [item EXCEPT !.apiKey = NoKey] ELSE item : item \in Users}

\* ConditionExpression "keyId = :keyId" of removeApiKeyFromDatabase
removeApiKeyCondition(userId, key) ==
  \E item \in ItemsOf(userId) : item.keyId # NoKey /\ item.keyId = key

\* removeApiKeyFromDatabase: UpdateCommand REMOVE keyId, status
removeApiKeyFromDatabase(userId, key) ==
  {IF item.userId = userId THEN [item EXCEPT !.keyId = NoKey] ELSE item : item \in Users}

\* updateUserClaims with the claims of step 4: updateUserMetadata merges publicMetadata
setClaims(userId, key) ==
  [publicMetadata EXCEPT ![userId] = [updated |-> TRUE, keyId |-> key, hasApiKey |-> TRUE]]

\* updateUserClaims with resetClaims: the keyId claim is not among them
resetClaims(userId) ==
  [publicMetadata EXCEPT ![userId] = [@ EXCEPT !.updated = TRUE, !.hasApiKey = FALSE]]

\* registerUserUseCase(newUserData): forUser, build, saga.execute() up to the
\* first await (step 1 has called userAdapter.registerUser)
registerUserUseCase(i) ==
  /\ regPc[i] = "idle"
  /\ newUserData' = i
  /\ CallStep(i, "execute", 1, ExecuteCall(1, i, generatedKeyId))
  /\ UNCHANGED <<generatedKeyId, regCompleted, regCompErrs, Users, unkeyKeys, publicMetadata>>
  /\ UNCHANGED notRegVars

\* the awaited execute of a step resolves: its effect is in place, the loop
\* of Saga.execute goes on to the next step
ExecuteResolves(i) ==
  /\ regPc[i] = "execute"
  /\ regCall[i].called
  /\ LET step == regStep[i]
         call == regCall[i]
         key  == IF step = 2 THEN i ELSE generatedKeyId
     IN /\ Users' = CASE step = 1 -> registerUser(call.userId)
                      [] step = 3 -> saveApiKeyToDatabase(call.userId, call.keyId)
                      [] OTHER    -> Users
        /\ unkeyKeys' = IF step = 2
                        THEN unkeyKeys \cup {[keyId |-> i, userId |-> call.userId]}
                        ELSE unkeyKeys
        /\ publicMetadata' = IF step = 4
                             THEN setClaims(call.userId, call.keyId)
                             ELSE publicMetadata
        /\ generatedKeyId' = key
        /\ regCompleted' = [regCompleted EXCEPT ![i] = @ + 1]
        /\ IF step < RegSteps
           THEN CallStep(i, "execute", step + 1, ExecuteCall(step + 1, newUserData, key))
           ELSE RegSettle(i, "resolved")
  /\ UNCHANGED <<newUserData, regCompErrs>>
  /\ UNCHANGED notRegVars

\* the awaited execute of a step rejects: catch, compensate()
ExecuteRejects(i) ==
  /\ regPc[i] = "execute"
  /\ CompensateFrom(i, regCompleted[i])
  /\ UNCHANGED <<newUserData, generatedKeyId, regCompleted, regCompErrs, Users, unkeyKeys,
                 publicMetadata>>
  /\ UNCHANGED notRegVars

\* the awaited compensate of a step resolves
CompensateResolves(i) ==
  /\ regPc[i] = "compensate"
  /\ LET step == regStep[i]
         call == regCall[i]
     IN /\ call.called /\ step = 2 => deleteApiKeysCondition(call.userId, call.keyId)
        /\ call.called /\ step = 3 => removeApiKeyCondition(call.userId, call.keyId)
        /\ Users' = CASE call.called /\ step = 2 -> deleteApiKeys(call.userId, call.keyId)
                      [] call.called /\ step = 3 -> removeApiKeyFromDatabase(call.userId, call.keyId)
                      [] OTHER -> Users
        /\ publicMetadata' = IF call.called /\ step = 4
                             THEN resetClaims(call.userId)
                             ELSE publicMetadata
        /\ CompensateFrom(i, step - 1)
  /\ UNCHANGED <<newUserData, generatedKeyId, regCompleted, regCompErrs, unkeyKeys>>
  /\ UNCHANGED notRegVars

\* the awaited compensate of a step rejects: logged, the loop goes on
CompensateRejects(i) ==
  /\ regPc[i] = "compensate"
  /\ regCall[i].called
  /\ regCompErrs' = [regCompErrs EXCEPT ![i] = @ \cup {regStep[i]}]
  /\ CompensateFrom(i, regStep[i] - 1)
  /\ UNCHANGED <<newUserData, generatedKeyId, regCompleted, Users, unkeyKeys, publicMetadata>>
  /\ UNCHANGED notRegVars

RegNext ==
  \E i \in Invocations :
    \/ registerUserUseCase(i)
    \/ ExecuteResolves(i)
    \/ ExecuteRejects(i)
    \/ CompensateResolves(i)
    \/ CompensateRejects(i)

RegSpec == RegInit /\ [][RegNext]_vars

\* C21: every userAdapter call made by the saga of invocation i carries the
\* userId of invocation i, and no key id other than the one generated in
\* invocation i
C21_NoSharedState ==
  \A c \in regLog : c.userId = c.inv /\ c.keyId \in {NoKey, c.inv}

\* the effects of the four steps for a user
UserRecordPresent(u) == ItemsOf(u) # {}

UnkeyKeyPresent(u) == \E k \in unkeyKeys : k.userId = u

SavedKeyPresent(u) == \E item \in ItemsOf(u) : item.keyId # NoKey

ClaimsUpdated(u) == publicMetadata[u].updated

RanAlone(i) == \A j \in Invocations \ {i} : regPc[j] = "idle"

\* C25: a registration that ran alone and failed with no compensation
\* rejecting leaves no user record, no generated key, no saved key id and no
\* updated claims; one that succeeded leaves all four
C25_AllOrNothing ==
  \A i \in Invocations :
    RanAlone(i) =>
      /\ (regPc[i] = "rejected" /\ regCompErrs[i] = {}) =>
           /\ ~UserRecordPresent(i)
           /\ ~UnkeyKeyPresent(i)
           /\ ~SavedKeyPresent(i)
           /\ ~ClaimsUpdated(i)
      /\ regPc[i] = "resolved" =>
           /\ UserRecordPresent(i)
           /\ UnkeyKeyPresent(i)
           /\ SavedKeyPresent(i)
           /\ ClaimsUpdated(i)

====
